---- MODULE Spec2Model ----
(***************************************************************************)
(* Poll-task registry (Core::XilTimer) and the PHY reference device        *)
(* (Libraries::NetPhy) of shadPS4.                                         *)
(*                                                                         *)
(* The registry is a vector of PollTask {name, callback, enabled}.  A      *)
(* callback is an opaque std::function<void()>: the model keeps whether a  *)
(* target is bound, and each invocation ends in one of Outcomes (returns,  *)
(* throws a std::exception, throws something else), chosen per invocation. *)
(*                                                                         *)
(* The device is the PhyDriver struct.  Its collaborators are the tick     *)
(* source SDL_GetTicks() (64-bit in SDL3, stored into a u32 field) and the *)
(* connectivity signal Config::getIsConnectedToNetwork().  Integer widths  *)
(* are scaled down (U32Range stands for 2^32, MaxTicks for the largest     *)
(* tick value explored) so that wrap-around and truncation stay reachable. *)
(***************************************************************************)
EXTENDS Integers, Sequences, FiniteSets

VARIABLES
    poll_tasks,        \* XilTimer::poll_tasks, in registration order
    last_pass,         \* what the most recent PollAll did (none since the last registry change)
    last_set,          \* per name: the latest SetTaskEnabled argument given while the name was registered
    last_call,         \* the most recent call on the registry and its arguments
    phy,               \* the PhyDriver instance
    connected,         \* Config::getIsConnectedToNetwork()
    ticks,             \* SDL_GetTicks()
    polls_since_init,  \* Phy_Poll calls on the device since the latest Phy_Init (-1: no Phy_Init yet)
    phy_call,          \* the most recent call of the PHY interface, its argument and its result
    phy_task,          \* position of the task whose callback is Phy_Poll(&phy) (0: none registered)
    passes_since_init, \* PollAll passes begun with that task enabled since the latest Phy_Init (-1: none yet)
    simd,              \* the most recent call of a Common::Simd* routine: its arguments and its result
    threads,           \* a polling thread and a thread calling SetTaskEnabled: where each stands
    dlss               \* the DlssPass instance, its build and the most recent Render call

vars == <<poll_tasks, last_pass, last_set, last_call, phy, connected, ticks, polls_since_init,
          phy_call, phy_task, passes_since_init, simd, threads, dlss>>
timer_vars == <<poll_tasks, last_pass, last_set, last_call>>
phy_vars == <<phy, connected, ticks, polls_since_init, phy_call>>
binding_vars == <<phy_task, passes_since_init>>

----------------------------------------------------------------------------
(* Bounds *)

MaxTasks == 3

MaxPolls == 5

MaxTicks == 6

U32Range == 5

MaxPasses == 4

MaxReentrantCalls == 1

\* The largest number of output images a DlssPass is created with.
MaxImages == 3

\* The largest size passed to SimdMemcpy: an AVX2 copy of this size with the largest
\* prologue (31 bytes) still runs the 128-byte loop, the 32-byte loop and the tail.
MaxCopySize == 192

\* The largest size passed to SimdMemcmp: one 128-byte AVX2 chunk or two 64-byte SSE2 chunks,
\* followed by a tail.
MaxCmpSize == 140

----------------------------------------------------------------------------
(* Core::XilTimer *)

Names == {"A", "B"}

Outcomes == {"returns", "std_exception", "other_exception"}

\* XilTimer::PollTask constructor: a task is born enabled.
PollTask(n, cb) == [name |-> n, callback |-> cb, enabled |-> TRUE]

\* A pass of PollAll: the tasks invoked (by position), those whose callback threw, the
\* LOG_ERROR lines written, and whether an exception left PollAll.  For a pass whose
\* callbacks call back into the registry: the enabled flags as the pass began and the
\* SetTaskEnabled calls the callbacks made.
NewPass == [done |-> TRUE, invoked |-> <<>>, faulted |-> <<>>, logged |-> <<>>,
            propagated |-> FALSE, began |-> <<>>, calls |-> <<>>]

NoPass == [NewPass EXCEPT !.done = FALSE]

Registered(n) == \E i \in 1..Len(poll_tasks) : poll_tasks[i].name = n

\* A registration that puts the new task in front of the others.
RegisterPollTask_Prepends(name, callback) ==
    /\ Len(poll_tasks) < MaxTasks
    /\ poll_tasks' = <<PollTask(name, callback)>> \o poll_tasks
    /\ last_pass' = NoPass
    /\ last_call' = [op |-> "RegisterPollTask", name |-> name, flag |-> callback]
    /\ UNCHANGED last_set
    /\ UNCHANGED phy_vars
    /\ UNCHANGED <<binding_vars, simd, threads, dlss>>

\* A registration that replaces the callback of a task already registered under the name
\* (last write wins) instead of adding a second task.
RegisterPollTask_ReplacesSameName(name, callback) ==
    /\ Len(poll_tasks) < MaxTasks
    /\ poll_tasks' = IF Registered(name)
                       THEN [i \in 1..Len(poll_tasks) |->
                               IF poll_tasks[i].name = name THEN PollTask(name, callback)
                               ELSE poll_tasks[i]]
                       ELSE Append(poll_tasks, PollTask(name, callback))
    /\ last_pass' = NoPass
    /\ last_call' = [op |-> "RegisterPollTask", name |-> name, flag |-> callback]
    /\ UNCHANGED last_set
    /\ UNCHANGED phy_vars
    /\ UNCHANGED <<binding_vars, simd, threads, dlss>>

\* RegisterPollTask: emplace_back(name, callback).
RegisterPollTask(name, callback) ==
    /\ Len(poll_tasks) < MaxTasks
    /\ poll_tasks' = Append(poll_tasks, PollTask(name, callback))
    /\ last_pass' = NoPass
    /\ last_call' = [op |-> "RegisterPollTask", name |-> name, flag |-> callback]
    /\ UNCHANGED last_set
    /\ UNCHANGED phy_vars
    /\ UNCHANGED <<binding_vars, simd, threads, dlss>>

\* A try block with the catch (...) handler left out.
Catch_StdOnly(outcome) ==
    IF outcome = "std_exception" THEN "Exception" ELSE "uncaught"

\* The handlers of PollAll's try block: catch (const std::exception&) and catch (...).
\* The result is the log line written, or "uncaught" when no handler matches.
Catch(outcome) ==
    IF outcome = "std_exception" THEN "Exception"
    ELSE IF outcome = "other_exception" THEN "Unknown exception"
    ELSE "uncaught"

\* A loop guard that forgets the enabled flag.
ShouldInvoke_IgnoresEnabled(task) == task.callback

\* The guard of PollAll's loop body: task.enabled && task.callback.
ShouldInvoke(task) == task.enabled /\ task.callback

\* A pass whose try block encloses the whole loop: the first fault is logged and ends the pass.
RECURSIVE PollAllFrom_TryAroundLoop(_, _, _, _)
PollAllFrom_TryAroundLoop(tasks, outcomes, i, acc) ==
    IF i > Len(tasks) THEN acc
    ELSE IF ~ShouldInvoke(tasks[i]) THEN PollAllFrom_TryAroundLoop(tasks, outcomes, i + 1, acc)
    ELSE LET called == [acc EXCEPT !.invoked = Append(@, i)]
         IN  IF outcomes[i] = "returns"
               THEN PollAllFrom_TryAroundLoop(tasks, outcomes, i + 1, called)
             ELSE [called EXCEPT !.faulted = Append(@, i),
                                 !.logged = Append(@, <<tasks[i].name, Catch(outcomes[i])>>)]

\* The loop of PollAll from task i on; acc is the pass so far.
RECURSIVE PollAllFrom(_, _, _, _)
PollAllFrom(tasks, outcomes, i, acc) ==
    IF i > Len(tasks) THEN acc
    ELSE IF ~ShouldInvoke(tasks[i]) THEN PollAllFrom(tasks, outcomes, i + 1, acc)
    ELSE LET called == [acc EXCEPT !.invoked = Append(@, i)]
             thrown == [called EXCEPT !.faulted = Append(@, i)]
         IN  IF outcomes[i] = "returns"
               THEN PollAllFrom(tasks, outcomes, i + 1, called)
             ELSE IF Catch(outcomes[i]) = "uncaught"
               THEN [thrown EXCEPT !.propagated = TRUE]
             ELSE PollAllFrom(tasks, outcomes, i + 1,
                      [thrown EXCEPT !.logged = Append(@, <<tasks[i].name, Catch(outcomes[i])>>)])

\* PollAll: one pass over poll_tasks; outcomes[i] is how task i's callback ends when the pass
\* invokes it (a callback that is not invoked has no outcome: "returns" is a placeholder).
PollAll ==
    /\ \E outcomes \in [1..Len(poll_tasks) -> Outcomes] :
          /\ \A i \in 1..Len(poll_tasks) :
                ~(poll_tasks[i].enabled /\ poll_tasks[i].callback) => outcomes[i] = "returns"
          /\ last_pass' = PollAllFrom(poll_tasks, outcomes, 1, NewPass)
    /\ last_call' = [op |-> "PollAll", name |-> "", flag |-> FALSE]
    /\ UNCHANGED <<poll_tasks, last_set>>
    /\ UNCHANGED phy_vars
    /\ UNCHANGED <<binding_vars, simd, threads, dlss>>

\* A SetTaskEnabled that flips the flag of the task it finds instead of storing the argument.
RECURSIVE SetTaskEnabledFrom_Flips(_, _, _, _)
SetTaskEnabledFrom_Flips(tasks, name, enabled, i) ==
    IF i > Len(tasks) THEN tasks
    ELSE IF tasks[i].name = name THEN [tasks EXCEPT ![i].enabled = ~@]
    ELSE SetTaskEnabledFrom_Flips(tasks, name, enabled, i + 1)

\* A SetTaskEnabled whose search stops one short and then takes the last task as the match.
RECURSIVE SetTaskEnabledFrom_LastIsMatch(_, _, _, _)
SetTaskEnabledFrom_LastIsMatch(tasks, name, enabled, i) ==
    IF i > Len(tasks) THEN tasks
    ELSE IF tasks[i].name = name \/ i = Len(tasks) THEN [tasks EXCEPT ![i].enabled = enabled]
    ELSE SetTaskEnabledFrom_LastIsMatch(tasks, name, enabled, i + 1)

\* A SetTaskEnabled without the break: every task of that name gets the flag.
RECURSIVE SetTaskEnabledFrom_NoBreak(_, _, _, _)
SetTaskEnabledFrom_NoBreak(tasks, name, enabled, i) ==
    IF i > Len(tasks) THEN tasks
    ELSE IF tasks[i].name = name
      THEN SetTaskEnabledFrom_NoBreak([tasks EXCEPT ![i].enabled = enabled], name, enabled, i + 1)
    ELSE SetTaskEnabledFrom_NoBreak(tasks, name, enabled, i + 1)

\* The loop of SetTaskEnabled from task i on: the first task named name gets the flag, then break.
RECURSIVE SetTaskEnabledFrom(_, _, _, _)
SetTaskEnabledFrom(tasks, name, enabled, i) ==
    IF i > Len(tasks) THEN tasks
    ELSE IF tasks[i].name = name THEN [tasks EXCEPT ![i].enabled = enabled]
    ELSE SetTaskEnabledFrom(tasks, name, enabled, i + 1)

SetTaskEnabled(name, enabled) ==
    /\ poll_tasks' = SetTaskEnabledFrom(poll_tasks, name, enabled, 1)
    /\ last_pass' = NoPass
    /\ last_call' = [op |-> "SetTaskEnabled", name |-> name, flag |-> enabled]
    /\ last_set' = IF Registered(name)
                     THEN [last_set EXCEPT ![name] = IF enabled THEN "on" ELSE "off"]
                     ELSE last_set
    /\ UNCHANGED phy_vars
    /\ UNCHANGED <<binding_vars, simd, threads, dlss>>

\* A pass that works on a copy of the task list taken when it begins: what a callback
\* changes is seen by the next pass only.
RECURSIVE PollAllReentrantFrom_Snapshot(_, _, _, _)
PollAllReentrantFrom_Snapshot(tasks, calls, i, acc) ==
    IF i > Len(tasks) THEN acc
    ELSE IF ~ShouldInvoke(tasks[i]) THEN PollAllReentrantFrom_Snapshot(tasks, calls, i + 1, acc)
    ELSE LET called == [acc EXCEPT !.pass.invoked = Append(@, i)]
         IN  IF i \in DOMAIN calls
               THEN PollAllReentrantFrom_Snapshot(tasks, calls, i + 1,
                      [pass |-> [called.pass EXCEPT !.calls =
                                    Append(@, [caller |-> i, name |-> calls[i][1],
                                               flag |-> calls[i][2]])],
                       tasks |-> SetTaskEnabledFrom(acc.tasks, calls[i][1], calls[i][2], 1),
                       set |-> IF \E j \in 1..Len(tasks) : tasks[j].name = calls[i][1]
                                 THEN [acc.set EXCEPT ![calls[i][1]] =
                                          IF calls[i][2] THEN "on" ELSE "off"]
                                 ELSE acc.set])
               ELSE PollAllReentrantFrom_Snapshot(tasks, calls, i + 1, called)

\* The loop of PollAll from task i on when callbacks call SetTaskEnabled: the loop holds
\* references into poll_tasks, so the test task.enabled && task.callback reads the flag as
\* the callbacks invoked so far have left it.  calls[i] is the SetTaskEnabled(name, flag)
\* call that task i's callback makes when invoked; acc.tasks is poll_tasks so far.
RECURSIVE PollAllReentrantFrom(_, _, _, _)
PollAllReentrantFrom(tasks, calls, i, acc) ==
    IF i > Len(tasks) THEN acc
    ELSE IF ~ShouldInvoke(acc.tasks[i]) THEN PollAllReentrantFrom(tasks, calls, i + 1, acc)
    ELSE LET called == [acc EXCEPT !.pass.invoked = Append(@, i)]
         IN  IF i \in DOMAIN calls
               THEN PollAllReentrantFrom(tasks, calls, i + 1,
                      [pass |-> [called.pass EXCEPT !.calls =
                                    Append(@, [caller |-> i, name |-> calls[i][1],
                                               flag |-> calls[i][2]])],
                       tasks |-> SetTaskEnabledFrom(acc.tasks, calls[i][1], calls[i][2], 1),
                       set |-> IF \E j \in 1..Len(tasks) : tasks[j].name = calls[i][1]
                                 THEN [acc.set EXCEPT ![calls[i][1]] =
                                          IF calls[i][2] THEN "on" ELSE "off"]
                                 ELSE acc.set])
               ELSE PollAllReentrantFrom(tasks, calls, i + 1, called)

\* PollAll with callbacks that return normally and of which at most MaxReentrantCalls call
\* SetTaskEnabled on the registry while the pass is running.
PollAllReentrant ==
    /\ \E callers \in SUBSET {i \in 1..Len(poll_tasks) : poll_tasks[i].callback} :
          /\ Cardinality(callers) <= MaxReentrantCalls
          /\ \E calls \in [callers -> Names \X BOOLEAN] :
                LET began == [i \in 1..Len(poll_tasks) |-> poll_tasks[i].enabled]
                    result == PollAllReentrantFrom(poll_tasks, calls, 1,
                                  [pass |-> [NewPass EXCEPT !.began = began],
                                   tasks |-> poll_tasks, set |-> last_set])
                IN  /\ last_pass' = result.pass
                    /\ poll_tasks' = result.tasks
                    /\ last_set' = result.set
    /\ last_call' = [op |-> "PollAll", name |-> "", flag |-> FALSE]
    /\ UNCHANGED phy_vars
    /\ UNCHANGED <<binding_vars, simd, threads, dlss>>

----------------------------------------------------------------------------
(* Libraries::NetPhy *)

UNINITIALIZED == 0
INITIALIZING == 1
OPERATIONAL == 2
ERROR == 3

PhyStates == {UNINITIALIZED, INITIALIZING, OPERATIONAL, ERROR}

\* The number of polls after which an initializing device becomes operational.
InitThreshold == 3

NullPtr == "null"
DevPtr == "dev"
Ptrs == {NullPtr, DevPtr}

\* Conversion to u32 (of SDL_GetTicks()'s 64-bit result, and of init_counter++).
ToU32(x) == x % U32Range

\* PhyDriver's constructor.
PhyDriver == [state |-> UNINITIALIZED, init_counter |-> 0, link_up |-> FALSE,
              last_poll_time |-> 0]

\* The body of Phy_Init for a non-null device.
InitDevice(d, now) ==
    [state |-> INITIALIZING, init_counter |-> 0, link_up |-> FALSE,
     last_poll_time |-> ToU32(now)]

\* A poll whose threshold test is off by one (init_counter > 3).
PollDevice_LateThreshold(d, now, conn) ==
    LET stamped == [d EXCEPT !.last_poll_time = ToU32(now)]
    IN  IF d.state = INITIALIZING
          THEN LET counted == [stamped EXCEPT !.init_counter = ToU32(@ + 1)]
               IN  IF counted.init_counter > InitThreshold
                     THEN [counted EXCEPT !.state = OPERATIONAL, !.link_up = conn]
                     ELSE counted
        ELSE IF d.state = OPERATIONAL
          THEN [stamped EXCEPT !.link_up = conn]
        ELSE stamped

\* A poll that samples the connectivity signal only when the device becomes operational.
PollDevice_LinkLatched(d, now, conn) ==
    LET stamped == [d EXCEPT !.last_poll_time = ToU32(now)]
    IN  IF d.state = INITIALIZING
          THEN LET counted == [stamped EXCEPT !.init_counter = ToU32(@ + 1)]
               IN  IF counted.init_counter >= InitThreshold
                     THEN [counted EXCEPT !.state = OPERATIONAL, !.link_up = conn]
                     ELSE counted
        ELSE stamped

\* A poll that restarts the bring-up by itself when it finds the device in ERROR.
PollDevice_ErrorRecovers(d, now, conn) ==
    LET stamped == [d EXCEPT !.last_poll_time = ToU32(now)]
    IN  IF d.state = INITIALIZING
          THEN LET counted == [stamped EXCEPT !.init_counter = ToU32(@ + 1)]
               IN  IF counted.init_counter >= InitThreshold
                     THEN [counted EXCEPT !.state = OPERATIONAL, !.link_up = conn]
                     ELSE counted
        ELSE IF d.state = OPERATIONAL
          THEN [stamped EXCEPT !.link_up = conn]
        ELSE IF d.state = ERROR
          THEN [stamped EXCEPT !.state = INITIALIZING, !.init_counter = 0]
        ELSE stamped

\* A poll whose UNINITIALIZED case lacks its break and falls through into INITIALIZING's code.
PollDevice_UninitFallsThrough(d, now, conn) ==
    LET stamped == [d EXCEPT !.last_poll_time = ToU32(now)]
    IN  IF d.state \in {UNINITIALIZED, INITIALIZING}
          THEN LET counted == [stamped EXCEPT !.init_counter = ToU32(@ + 1)]
               IN  IF counted.init_counter >= InitThreshold
                     THEN [counted EXCEPT !.state = OPERATIONAL, !.link_up = conn]
                     ELSE counted
        ELSE IF d.state = OPERATIONAL
          THEN [stamped EXCEPT !.link_up = conn]
        ELSE stamped

\* A poll of an operational device that reports a fault when it finds the connectivity off.
PollDevice_FaultOnLinkLoss(d, now, conn) ==
    LET stamped == [d EXCEPT !.last_poll_time = ToU32(now)]
    IN  IF d.state = INITIALIZING
          THEN LET counted == [stamped EXCEPT !.init_counter = ToU32(@ + 1)]
               IN  IF counted.init_counter >= InitThreshold
                     THEN [counted EXCEPT !.state = OPERATIONAL, !.link_up = conn]
                     ELSE counted
        ELSE IF d.state = OPERATIONAL
          THEN IF conn THEN [stamped EXCEPT !.link_up = conn]
               ELSE [stamped EXCEPT !.state = ERROR, !.link_up = FALSE]
        ELSE stamped

\* The body of Phy_Poll for a non-null device: the timestamp, then the switch on the state.
PollDevice(d, now, conn) ==
    LET stamped == [d EXCEPT !.last_poll_time = ToU32(now)]
    IN  IF d.state = INITIALIZING
          THEN LET counted == [stamped EXCEPT !.init_counter = ToU32(@ + 1)]
               IN  IF counted.init_counter >= InitThreshold
                     THEN [counted EXCEPT !.state = OPERATIONAL, !.link_up = conn]
                     ELSE counted
        ELSE IF d.state = OPERATIONAL
          THEN [stamped EXCEPT !.link_up = conn]
        ELSE stamped

\* A query that compares the state with >= instead of ==.
Phy_IsOperational_AtLeast(p) == p # NullPtr /\ phy.state >= OPERATIONAL

\* Phy_IsOperational: phy && phy->state == OPERATIONAL.
Phy_IsOperational(p) == p # NullPtr /\ phy.state = OPERATIONAL

Phy_Init(p) ==
    /\ IF p = NullPtr
         THEN UNCHANGED <<phy, polls_since_init, passes_since_init>>
         ELSE /\ phy' = InitDevice(phy, ticks)
              /\ polls_since_init' = 0
              /\ passes_since_init' = 0
    /\ phy_call' = [op |-> "Phy_Init", ptr |-> p, result |-> FALSE]
    /\ UNCHANGED <<connected, ticks>>
    /\ UNCHANGED timer_vars
    /\ UNCHANGED <<phy_task, simd, threads, dlss>>

\* A Phy_Poll without the null check: the poll reaches the device whatever p is.
Phy_Poll_NoNullCheck(p) ==
    /\ polls_since_init < MaxPolls
    /\ phy' = PollDevice(phy, ticks, connected)
    /\ polls_since_init' = IF polls_since_init < 0 THEN polls_since_init
                           ELSE polls_since_init + 1
    /\ phy_call' = [op |-> "Phy_Poll", ptr |-> p, result |-> FALSE]
    /\ UNCHANGED <<connected, ticks>>
    /\ UNCHANGED timer_vars
    /\ UNCHANGED <<binding_vars, simd, threads, dlss>>

Phy_Poll(p) ==
    /\ IF p = NullPtr
         THEN UNCHANGED <<phy, polls_since_init>>
         ELSE /\ polls_since_init < MaxPolls
              /\ phy' = PollDevice(phy, ticks, connected)
              /\ polls_since_init' = IF polls_since_init < 0 THEN polls_since_init
                                     ELSE polls_since_init + 1
    /\ phy_call' = [op |-> "Phy_Poll", ptr |-> p, result |-> FALSE]
    /\ UNCHANGED <<connected, ticks>>
    /\ UNCHANGED timer_vars
    /\ UNCHANGED <<binding_vars, simd, threads, dlss>>

IsOperationalCall(p) ==
    /\ phy_call' = [op |-> "Phy_IsOperational", ptr |-> p, result |-> Phy_IsOperational(p)]
    /\ UNCHANGED <<phy, connected, ticks, polls_since_init>>
    /\ UNCHANGED timer_vars
    /\ UNCHANGED <<binding_vars, simd, threads, dlss>>

\* The connectivity setting changes.
SetConnected ==
    /\ connected' = ~connected
    /\ UNCHANGED <<phy, ticks, polls_since_init, phy_call>>
    /\ UNCHANGED timer_vars
    /\ UNCHANGED <<binding_vars, simd, threads, dlss>>

\* Time passes: the tick source is monotonic.
Tick ==
    /\ ticks < MaxTicks
    /\ \E t \in (ticks + 1)..MaxTicks : ticks' = t
    /\ UNCHANGED <<phy, connected, polls_since_init, phy_call>>
    /\ UNCHANGED timer_vars
    /\ UNCHANGED <<binding_vars, simd, threads, dlss>>

----------------------------------------------------------------------------
(* Common::Simd* *)

NoSimdCall == [fn |-> "none"]

\* The register widths in bytes.
AVX2_SIZE == 32

SSE2_SIZE == 16

\* Which of the three bodies the preprocessor kept in the build.
Paths == {"AVX2", "SSE2", "FALLBACK"}

\* One transfer made by the routine: n bytes read at offset s of the source buffer and
\* written at offset d of the destination buffer (a std::memcpy of n bytes, or a register
\* load followed by its store).
Transfer(d, s, n) == [d |-> d, s |-> s, n |-> n]

\* std::memcpy(dst, src, size).
Memcpy(size) == <<Transfer(0, 0, size)>>

\* The position of a copy: the offsets reached in the two buffers, the bytes still to copy,
\* and the transfers made so far.
CopyStart(size) == [d |-> 0, s |-> 0, size |-> size, ops |-> <<>>]

Advance(st, n) ==
    [d |-> st.d + n, s |-> st.s + n, size |-> st.size - n,
     ops |-> Append(st.ops, Transfer(st.d, st.s, n))]

AlignPrologue_KeepsSize(st, dst) ==
    LET align_offset == dst % AVX2_SIZE
        align_size == AVX2_SIZE - align_offset
    IN  IF align_offset # 0
        THEN [Advance(st, align_size) EXCEPT !.size = st.size]
        ELSE st

\* The unaligned start of the AVX2 body: dst is the destination address (its low five bits
\* are all that is read).
AlignPrologue(st, dst) ==
    LET align_offset == dst % AVX2_SIZE
        align_size == AVX2_SIZE - align_offset
    IN  IF align_offset # 0 THEN Advance(st, align_size) ELSE st

RECURSIVE MainLoopFrom(_, _, _, _)
\* The main loop: each iteration loads four registers of w bytes and stores them; the
\* byte count is left to the caller.
MainLoopFrom(st, w, chunks, i) ==
    IF i >= chunks
    THEN st
    ELSE MainLoopFrom(
             [st EXCEPT !.d = st.d + w * 4, !.s = st.s + w * 4,
                        !.ops = st.ops \o <<Transfer(st.d, st.s, w),
                                            Transfer(st.d + w, st.s + w, w),
                                            Transfer(st.d + w * 2, st.s + w * 2, w),
                                            Transfer(st.d + w * 3, st.s + w * 3, w)>>],
             w, chunks, i + 1)

MainLoop(st, w) ==
    LET chunks == st.size \div (w * 4)
        after == MainLoopFrom(st, w, chunks, 0)
    IN  [after EXCEPT !.size = st.size - chunks * w * 4]

RECURSIVE BlockLoop(_, _)
\* while (size >= w): one register at a time.
BlockLoop(st, w) ==
    IF st.size >= w THEN BlockLoop(Advance(st, w), w) ELSE st

CopyTail_Skipped(st) == st

\* if (size > 0) std::memcpy(d, s, size).
CopyTail(st) == IF st.size > 0 THEN Advance(st, st.size) ELSE st

\* The transfers SimdMemcpy(dst, src, size) makes in a build that kept the given body.
SimdMemcpy(path, dst, size) ==
    IF path = "AVX2" /\ size >= AVX2_SIZE * 4
    THEN CopyTail(BlockLoop(MainLoop(AlignPrologue(CopyStart(size), dst), AVX2_SIZE),
                        AVX2_SIZE)).ops
    ELSE IF path = "SSE2" /\ size >= SSE2_SIZE * 4
    THEN CopyTail(BlockLoop(MainLoop(CopyStart(size), SSE2_SIZE), SSE2_SIZE)).ops
    ELSE Memcpy(size)

RECURSIVE WrittenFrom(_, _, _)
WrittenFrom(ops, i, k) ==
    IF k = 0
    THEN -1
    ELSE IF ops[k].d <= i /\ i < ops[k].d + ops[k].n
    THEN ops[k].s + (i - ops[k].d)
    ELSE WrittenFrom(ops, i, k - 1)

\* The content of destination byte i after the transfers, as the offset of the source byte
\* it now holds (the last transfer that covers i decides), or -1 if no transfer wrote it.
Written(ops, i) == WrittenFrom(ops, i, Len(ops))

\* The offsets of the destination that were written, and of the source that were read.
WriteSet(ops) == UNION {ops[k].d..(ops[k].d + ops[k].n - 1) : k \in 1..Len(ops)}

ReadSet(ops) == UNION {ops[k].s..(ops[k].s + ops[k].n - 1) : k \in 1..Len(ops)}

CopyInputs ==
    [fn : {"SimdMemcpy"}, done : {FALSE}, path : Paths, dst : 0..(AVX2_SIZE - 1),
     size : 0..MaxCopySize, ops : {<<>>}]

SimdMemcpyCall ==
    /\ simd.fn = "SimdMemcpy"
    /\ ~simd.done
    /\ simd' = [simd EXCEPT !.done = TRUE, !.ops = SimdMemcpy(simd.path, simd.dst, simd.size)]
    /\ UNCHANGED <<timer_vars, phy_vars, binding_vars, threads, dlss>>

\* Two memory regions to compare, described by where they differ: they agree on every
\* offset below b.first (b.first = -1: they agree everywhere); at b.first the first region
\* holds the larger unsigned byte if b.sign = 1 and the smaller if b.sign = -1; above
\* b.first they agree again, or, if b.rest, differ the other way round. The regions extend
\* beyond the size that is compared. The bytes used are 1, 64 and 128 (0x80): in this order
\* as unsigned bytes, while a signed char holding 0x80 is negative.
Byte1(b, i) ==
    IF b.first = -1 \/ i < b.first THEN 64
    ELSE IF i = b.first THEN (IF b.sign = 1 THEN 128 ELSE 1)
    ELSE IF b.rest THEN (IF b.sign = 1 THEN 1 ELSE 128)
    ELSE 64

Byte2(b, i) ==
    IF b.first = -1 \/ i < b.first THEN 64
    ELSE IF i = b.first THEN (IF b.sign = 1 THEN 1 ELSE 128)
    ELSE IF b.rest THEN (IF b.sign = 1 THEN 128 ELSE 1)
    ELSE 64

Sign(x) == IF x < 0 THEN -1 ELSE IF x > 0 THEN 1 ELSE 0

RECURSIVE MemcmpFrom(_, _, _)
MemcmpFrom(b, i, end) ==
    IF i >= end
    THEN 0
    ELSE IF Byte1(b, i) # Byte2(b, i)
    THEN Sign(Byte1(b, i) - Byte2(b, i))
    ELSE MemcmpFrom(b, i + 1, end)

\* std::memcmp(p1, p2, n) with both pointers at offset p: the sign of the result (the
\* standard fixes nothing else), the bytes compared as unsigned char.
Memcmp(b, p, n) == MemcmpFrom(b, p, p + n)

\* _mm256_movemask_epi8(_mm256_cmpeq_epi8(data1, data2)) for the w bytes at offset p: the
\* set of the lanes whose mask bit is set, i.e. whose bytes are equal.
EqMask(b, p, w) == {lane \in 0..(w - 1) : Byte1(b, p + lane) = Byte2(b, p + lane)}

\* The mask with every bit set: 0xFFFFFFFF for 32 lanes, 0xFFFF for 16.
AllLanes(w) == 0..(w - 1)

ChunkDiffers_ThreeRegisters(b, p, w) ==
    (EqMask(b, p, w) \cap EqMask(b, p + w, w) \cap EqMask(b, p + w * 2, w)) # AllLanes(w)

\* (mask0 & mask1 & mask2 & mask3) != all-ones.
ChunkDiffers(b, p, w) ==
    (EqMask(b, p, w) \cap EqMask(b, p + w, w) \cap EqMask(b, p + w * 2, w)
        \cap EqMask(b, p + w * 3, w)) # AllLanes(w)

RECURSIVE CmpLoopFrom(_, _, _, _, _)
\* The chunk loop: returns from the function at the first chunk that differs, otherwise
\* leaves the pointers after the last full chunk.
CmpLoopFrom(b, w, chunks, i, p) ==
    IF i >= chunks
    THEN [returned |-> FALSE, value |-> 0, p |-> p]
    ELSE IF ChunkDiffers(b, p, w)
    THEN [returned |-> TRUE, value |-> Memcmp(b, p, w * 4), p |-> p]
    ELSE CmpLoopFrom(b, w, chunks, i + 1, p + w * 4)

CmpTail_Ignored(b, p, size) == 0

\* if (size > 0) return std::memcmp(p1, p2, size); return 0.
CmpTail(b, p, size) == IF size > 0 THEN Memcmp(b, p, size) ELSE 0

VectorMemcmp(b, size, w) ==
    LET chunks == size \div (w * 4)
        loop == CmpLoopFrom(b, w, chunks, 0, 0)
    IN  IF loop.returned
        THEN loop.value
        ELSE CmpTail(b, loop.p, size - chunks * w * 4)

\* The sign of SimdMemcmp(ptr1, ptr2, size) in a build that kept the given body.
SimdMemcmp(path, b, size) ==
    IF path = "AVX2" /\ size >= AVX2_SIZE * 4
    THEN VectorMemcmp(b, size, AVX2_SIZE)
    ELSE IF path = "SSE2" /\ size >= SSE2_SIZE * 4
    THEN VectorMemcmp(b, size, SSE2_SIZE)
    ELSE Memcmp(b, 0, size)

CmpInputs ==
    {b \in [fn : {"SimdMemcmp"}, done : {FALSE}, path : Paths, size : 0..MaxCmpSize,
            first : -1..MaxCmpSize, sign : {-1, 1}, rest : BOOLEAN, result : {0}] :
        /\ b.first <= b.size
        /\ b.first = -1 => (b.sign = 1 /\ ~b.rest)}

SimdMemcmpCall ==
    /\ simd.fn = "SimdMemcmp"
    /\ ~simd.done
    /\ simd' = [simd EXCEPT !.done = TRUE, !.result = SimdMemcmp(simd.path, simd, simd.size)]
    /\ UNCHANGED <<timer_vars, phy_vars, binding_vars, threads, dlss>>

----------------------------------------------------------------------------
(* Core::XilTimer called from two threads *)

\* The registry has no lock and no atomic member.  One thread runs PollAll, one statement
\* at a time; another calls SetTaskEnabled.  serialized tells whether the callers hold a
\* mutex of their own around each call.  poll is the polling thread: idle, about to test
\* task i ("test"), or past the test and about to invoke task i ("invoke"); invoked are the
\* tasks invoked so far in the pass.  set is the other thread: idle or inside
\* SetTaskEnabled(name, flag).  off[n]: the latest SetTaskEnabled call for n that has
\* returned passed false and found the name, and no SetTaskEnabled(n, true) was called since.
\* late: an invocation of a uniquely named task began while off held for its name.
NoThreads ==
    [serialized |-> TRUE,
     poll |-> [phase |-> "idle", i |-> 0, invoked |-> <<>>],
     set |-> [phase |-> "idle", name |-> "", flag |-> FALSE],
     off |-> [n \in Names |-> FALSE],
     late |-> FALSE]

thread_frame ==
    /\ UNCHANGED <<last_pass, last_set, last_call>>
    /\ UNCHANGED phy_vars
    /\ UNCHANGED <<binding_vars, simd, dlss>>

\* PollAll is entered: the range-for starts at the first task.  Callers that serialize the
\* calls take their mutex here, so no SetTaskEnabled is in progress.
PollAll_Begin ==
    /\ threads.poll.phase = "idle"
    /\ threads.serialized => threads.set.phase = "idle"
    /\ threads' = [threads EXCEPT !.poll = [phase |-> "test", i |-> 1, invoked |-> <<>>]]
    /\ UNCHANGED poll_tasks
    /\ thread_frame

\* if (task.enabled && task.callback): a plain read of the flag.  When it races with the
\* write of SetTaskEnabled it yields the flag before or after that write, as the two steps
\* fall.
PollAll_Test ==
    /\ threads.poll.phase = "test"
    /\ threads.poll.i <= Len(poll_tasks)
    /\ threads' = IF ShouldInvoke(poll_tasks[threads.poll.i])
                    THEN [threads EXCEPT !.poll.phase = "invoke"]
                    ELSE [threads EXCEPT !.poll.i = @ + 1]
    /\ UNCHANGED poll_tasks
    /\ thread_frame

\* task.callback(): the invocation begins; the callback runs to its end (what it throws is
\* caught) and the loop moves on.
PollAll_Invoke ==
    /\ threads.poll.phase = "invoke"
    /\ LET i == threads.poll.i
       IN  threads' = [threads EXCEPT
                          !.poll = [phase |-> "test", i |-> i + 1, invoked |-> Append(@.invoked, i)],
                          !.late = @ \/ (/\ threads.off[poll_tasks[i].name]
                                         /\ \A j \in 1..Len(poll_tasks) :
                                               j # i => poll_tasks[j].name # poll_tasks[i].name)]
    /\ UNCHANGED poll_tasks
    /\ thread_frame

\* The loop is past the last task: PollAll returns.
PollAll_End ==
    /\ threads.poll.phase = "test"
    /\ threads.poll.i > Len(poll_tasks)
    /\ threads' = [threads EXCEPT !.poll.phase = "idle"]
    /\ UNCHANGED poll_tasks
    /\ thread_frame

\* The other thread enters SetTaskEnabled(name, enabled).
SetTaskEnabled_Call(name, enabled) ==
    /\ threads.set.phase = "idle"
    /\ threads.serialized => threads.poll.phase = "idle"
    /\ threads' = [threads EXCEPT
                      !.set = [phase |-> "called", name |-> name, flag |-> enabled],
                      !.off = IF enabled THEN [@ EXCEPT ![name] = FALSE] ELSE @]
    /\ UNCHANGED poll_tasks
    /\ thread_frame

\* The search (names never change) and the store task.enabled = enabled.
SetTaskEnabled_Write ==
    /\ threads.set.phase = "called"
    /\ poll_tasks' = SetTaskEnabledFrom(poll_tasks, threads.set.name, threads.set.flag, 1)
    /\ threads' = [threads EXCEPT !.set.phase = "written"]
    /\ thread_frame

\* SetTaskEnabled returns to its caller.
SetTaskEnabled_Return ==
    /\ threads.set.phase = "written"
    /\ threads' = [threads EXCEPT
                      !.set.phase = "idle",
                      !.off = IF ~threads.set.flag /\ Registered(threads.set.name)
                                THEN [@ EXCEPT ![threads.set.name] = TRUE] ELSE @]
    /\ UNCHANGED poll_tasks
    /\ thread_frame

\* Registration stays on one thread: tasks (each with a callback) are registered while no
\* call is in progress.
RegisterWhileIdle(name) ==
    /\ threads.poll.phase = "idle"
    /\ threads.set.phase = "idle"
    /\ RegisterPollTask(name, TRUE)

----------------------------------------------------------------------------
(* Vulkan::HostPasses::DlssPass *)

\* vk::Extent2D as <<width, height>>.  The sizes a frame is rendered at and presented at:
\* every order of the two widths and of the two heights occurs, and the output size changes.
InputSizes == {<<1, 1>>, <<1, 2>>, <<2, 1>>, <<2, 2>>}

OutputSizes == {<<1, 2>>, <<2, 2>>}

\* DlssPass::Img as constructed: dirty, no image created yet (extent is the size the output
\* image was created at, once created is true).
Img == [dirty |-> TRUE, created |-> FALSE, extent |-> <<0, 0>>]

NoRenderCall ==
    [op |-> "none", enable |-> FALSE, input_size |-> <<0, 0>>, output_size |-> <<0, 0>>,
     result |-> "none", tagged |-> 0, prepared |-> 0]

\* A default-constructed DlssPass (the member initializers of the class).  windows tells
\* whether the build defines _WIN32; call is the most recent call, its arguments, what it
\* returned, and the positions (1-based, 0: none) in available_imgs of the image
\* PrepareOutputImage prepared and of the image Render tagged as the output.
DlssPass ==
    [windows |-> FALSE, created |-> FALSE, num_images |-> 0, is_available |-> FALSE,
     streamline_initialized |-> FALSE, cur_size |-> <<0, 0>>, cur_image |-> 0,
     frame_index |-> 0, available_imgs |-> <<>>, call |-> NoRenderCall]

\* How the Streamline SDK answers InitializeStreamline: every call succeeds, DLSS is not
\* supported on the adapter, or another call fails.
SlInitResults == {"ok", "unsupported", "failed"}

\* InitializeStreamline, called by Create on Windows for an NVIDIA GPU.
InitializeStreamline(d, sl) ==
    IF sl = "ok" THEN [d EXCEPT !.streamline_initialized = TRUE]
    ELSE IF sl = "unsupported"
      THEN [d EXCEPT !.streamline_initialized = FALSE, !.is_available = FALSE]
    ELSE [d EXCEPT !.streamline_initialized = FALSE]

\* DlssPass::Create.
Create(num_images, is_nvidia_gpu, sl) ==
    /\ ~dlss.created
    /\ LET set == [dlss EXCEPT !.created = TRUE, !.num_images = num_images,
                               !.is_available = is_nvidia_gpu]
           inited == IF dlss.windows /\ is_nvidia_gpu THEN InitializeStreamline(set, sl)
                     ELSE set
       IN  dlss' = [inited EXCEPT !.available_imgs = [i \in 1..num_images |-> Img],
                                  !.call = [NoRenderCall EXCEPT !.op = "Create"]]
    /\ UNCHANGED <<timer_vars, phy_vars, binding_vars, simd, threads>>

\* ResizeAndInvalidate: the new size, and every image dirty.
ResizeAndInvalidate(d, size) ==
    [d EXCEPT !.cur_size = size,
              !.available_imgs = [i \in 1..Len(@) |->
                                    IF i <= d.num_images THEN [@[i] EXCEPT !.dirty = TRUE]
                                    ELSE @[i]]]

\* CreateImages(img) for the image at position i: created at cur_size, no longer dirty.
CreateImages(d, i) ==
    [d EXCEPT !.available_imgs[i] = [dirty |-> FALSE, created |-> TRUE, extent |-> d.cur_size]]

\* PrepareOutputImage: resize if the size changed, take the image at cur_image, advance
\* cur_image (wrapping at the number of images), create the image taken if it is dirty.
\* The result is the pass afterwards and the position of the image taken.
PrepareOutputImage(d, output_size) ==
    LET sized == IF output_size # d.cur_size THEN ResizeAndInvalidate(d, output_size) ELSE d
        img == sized.cur_image + 1
        advanced == [sized EXCEPT !.cur_image =
                        IF ToU32(@ + 1) >= Len(sized.available_imgs) THEN 0 ELSE ToU32(@ + 1)]
    IN  [pass |-> IF advanced.available_imgs[img].dirty THEN CreateImages(advanced, img)
                  ELSE advanced,
         img |-> img]

NoUpscalingNeeded_Strict(input_size, output_size) ==
    input_size[1] > output_size[1] /\ input_size[2] > output_size[2]

\* input_size.width >= output_size.width && input_size.height >= output_size.height.
NoUpscalingNeeded(input_size, output_size) ==
    input_size[1] >= output_size[1] /\ input_size[2] >= output_size[2]

\* How the Streamline SDK answers the calls of one Render: the first call that fails, or ok.
SlRenderResults == {"ok", "token_failed", "constants_failed", "tag_failed", "evaluate_failed"}

\* What a Render call leaves: the pass, the view returned ("color_input" or the
\* "output_view" of the tagged image), and the images prepared and tagged.
Rendered(d, result, prepared, tagged) ==
    [pass |-> d, result |-> result, prepared |-> prepared, tagged |-> tagged]

CountFrame(d) == [d EXCEPT !.frame_index = ToU32(@ + 1)]

\* The Windows body of Render after the streamline_initialized test.  color_image tells
\* whether inputs.color_image is a valid handle; sl is the SDK's answer.
RenderStreamline(d, output_size, color_image, sl) ==
    LET p == PrepareOutputImage(d, output_size)
        output_img == p.pass.cur_image + 1
    IN  IF sl \in {"token_failed", "constants_failed"}
          THEN Rendered(p.pass, "color_input", p.img, 0)
        ELSE IF ~color_image
          THEN Rendered(CountFrame(p.pass), "color_input", p.img, 0)
        ELSE IF sl \in {"tag_failed", "evaluate_failed"}
          THEN Rendered(CountFrame(p.pass), "color_input", p.img, output_img)
        ELSE Rendered(CountFrame(p.pass), "output_view", p.img, output_img)

\* The body of Render on other platforms.
RenderOther(d, output_size) ==
    LET p == PrepareOutputImage(d, output_size)
    IN  Rendered(CountFrame(p.pass), "color_input", p.img, 0)

\* DlssPass::Render(cmdbuf, inputs, settings) as a function of the pass.
RenderOn(d, enable, input_size, output_size, color_image, sl) ==
    IF ~enable \/ ~d.is_available
      THEN Rendered(d, "color_input", 0, 0)
    ELSE IF NoUpscalingNeeded(input_size, output_size)
      THEN Rendered(d, "color_input", 0, 0)
    ELSE IF d.windows
      THEN IF ~d.streamline_initialized
             THEN Rendered(d, "color_input", 0, 0)
             ELSE RenderStreamline(d, output_size, color_image, sl)
    ELSE RenderOther(d, output_size)

\* A Render call on a created pass.  The color image handle and the SDK's answer are read
\* on the Streamline path only.
Render(enable, input_size, output_size, color_image, sl) ==
    /\ dlss.created
    /\ LET streamline == /\ enable /\ dlss.is_available
                         /\ ~NoUpscalingNeeded(input_size, output_size)
                         /\ dlss.windows /\ dlss.streamline_initialized
       IN  ~streamline => (color_image /\ sl = "ok")
    /\ LET r == RenderOn(dlss, enable, input_size, output_size, color_image, sl)
       IN  dlss' = [r.pass EXCEPT !.call =
                       [op |-> "Render", enable |-> enable, input_size |-> input_size,
                        output_size |-> output_size, result |-> r.result,
                        tagged |-> r.tagged, prepared |-> r.prepared]]
    /\ UNCHANGED <<timer_vars, phy_vars, binding_vars, simd, threads>>

----------------------------------------------------------------------------
(* A device polled through the registry: its owner registers a task whose callback calls *)
(* Phy_Poll(&phy).                                                                        *)

\* RegisterPollTask(name, [&] { Phy_Poll(&phy); }): the task that polls the device.
RegisterPhyTask(name) ==
    /\ phy_task = 0
    /\ Len(poll_tasks) < MaxTasks
    /\ poll_tasks' = Append(poll_tasks, PollTask(name, TRUE))
    /\ phy_task' = Len(poll_tasks) + 1
    /\ last_pass' = NoPass
    /\ last_call' = [op |-> "RegisterPollTask", name |-> name, flag |-> TRUE]
    /\ UNCHANGED <<last_set, passes_since_init, simd, threads, dlss>>
    /\ UNCHANGED phy_vars

\* PollAll where one task's callback is Phy_Poll(&phy): the pass of PollAll, and the poll of
\* the device when the pass invokes that task.  Phy_Poll throws nothing.
PollAllWithDevice ==
    /\ polls_since_init < MaxPolls
    /\ passes_since_init < MaxPasses
    /\ \E outcomes \in [1..Len(poll_tasks) -> Outcomes] :
          /\ \A i \in 1..Len(poll_tasks) :
                (~(poll_tasks[i].enabled /\ poll_tasks[i].callback) \/ i = phy_task)
                    => outcomes[i] = "returns"
          /\ LET pass == PollAllFrom(poll_tasks, outcomes, 1, NewPass)
                 polled == \E j \in 1..Len(pass.invoked) : pass.invoked[j] = phy_task
             IN  /\ last_pass' = pass
                 /\ phy' = IF polled THEN PollDevice(phy, ticks, connected) ELSE phy
                 /\ polls_since_init' = IF polled /\ polls_since_init >= 0
                                           THEN polls_since_init + 1 ELSE polls_since_init
                 /\ phy_call' = IF polled THEN [op |-> "Phy_Poll", ptr |-> DevPtr, result |-> FALSE]
                                 ELSE phy_call
    /\ passes_since_init' =
          IF passes_since_init >= 0 /\ phy_task # 0 /\ poll_tasks[phy_task].enabled
            THEN passes_since_init + 1 ELSE passes_since_init
    /\ last_call' = [op |-> "PollAll", name |-> "", flag |-> FALSE]
    /\ UNCHANGED <<poll_tasks, last_set, connected, ticks, phy_task, simd, threads, dlss>>

----------------------------------------------------------------------------
(* Specifications *)

InitTimer ==
    /\ poll_tasks = <<>>
    /\ last_pass = NoPass
    /\ last_set = [n \in Names |-> "none"]
    /\ last_call = [op |-> "none", name |-> "", flag |-> FALSE]

InitEnv ==
    /\ connected \in BOOLEAN
    /\ ticks = 0
    /\ polls_since_init = -1
    /\ phy_call = [op |-> "none", ptr |-> NullPtr, result |-> FALSE]
    /\ phy_task = 0
    /\ passes_since_init = -1
    /\ simd = NoSimdCall
    /\ threads = NoThreads
    /\ dlss = DlssPass

\* The state after construction: an empty registry and a default-constructed device.
Init ==
    /\ InitTimer
    /\ InitEnv
    /\ phy = PhyDriver

\* PhyDriver is a plain struct: its owner may have left any values in the fields.
InitPhyAny ==
    /\ InitTimer
    /\ InitEnv
    /\ phy \in [state : PhyStates, init_counter : 0..(U32Range - 1), link_up : BOOLEAN,
                last_poll_time : 0..(U32Range - 1)]

NextTimer ==
    \/ \E n \in Names, cb \in BOOLEAN : RegisterPollTask(n, cb)
    \/ \E n \in Names, e \in BOOLEAN : SetTaskEnabled(n, e)
    \/ PollAll

NextPhy ==
    \/ \E p \in Ptrs : Phy_Init(p)
    \/ \E p \in Ptrs : Phy_Poll(p)
    \/ \E p \in Ptrs : IsOperationalCall(p)
    \/ SetConnected
    \/ Tick

Next == NextTimer \/ NextPhy

Spec == Init /\ [][Next]_vars

SpecTimer == Init /\ [][NextTimer]_vars

SpecPhy == Init /\ [][NextPhy]_vars

SpecPhyAny == InitPhyAny /\ [][NextPhy]_vars

\* The buffer routines on their own: a call with any arguments is pending, and is made.
InitSimd ==
    /\ InitTimer
    /\ phy = PhyDriver
    /\ connected = FALSE
    /\ ticks = 0
    /\ polls_since_init = -1
    /\ phy_call = [op |-> "none", ptr |-> NullPtr, result |-> FALSE]
    /\ phy_task = 0
    /\ passes_since_init = -1
    /\ simd \in CopyInputs \cup CmpInputs
    /\ threads = NoThreads
    /\ dlss = DlssPass

NextSimd == SimdMemcpyCall \/ SimdMemcmpCall

SpecSimd == InitSimd /\ [][NextSimd]_vars

\* The registry driving the device: the device's task is registered under any name among
\* other tasks (each with a callback, all registered as "A"), tasks are toggled by name, the
\* device is initialized, the connectivity changes, and PollAll is the only caller of
\* Phy_Poll.
NextSystem ==
    \/ RegisterPollTask("A", TRUE)
    \/ \E n \in Names : RegisterPhyTask(n)
    \/ \E n \in Names, e \in BOOLEAN : SetTaskEnabled(n, e)
    \/ PollAllWithDevice
    \/ Phy_Init(DevPtr)
    \/ SetConnected

SpecSystem == Init /\ [][NextSystem]_vars

\* The registry with callbacks that call SetTaskEnabled during a pass.
NextReentrant ==
    \/ \E n \in Names, cb \in BOOLEAN : RegisterPollTask(n, cb)
    \/ \E n \in Names, e \in BOOLEAN : SetTaskEnabled(n, e)
    \/ PollAllReentrant

SpecReentrant == Init /\ [][NextReentrant]_vars

\* The registry used by two threads, with and without a mutex of the callers.
InitThreads ==
    /\ InitTimer
    /\ phy = PhyDriver
    /\ connected = FALSE
    /\ ticks = 0
    /\ polls_since_init = -1
    /\ phy_call = [op |-> "none", ptr |-> NullPtr, result |-> FALSE]
    /\ phy_task = 0
    /\ passes_since_init = -1
    /\ simd = NoSimdCall
    /\ threads \in {[NoThreads EXCEPT !.serialized = b] : b \in BOOLEAN}
    /\ dlss = DlssPass

NextThreads ==
    \/ \E n \in Names : RegisterWhileIdle(n)
    \/ PollAll_Begin
    \/ PollAll_Test
    \/ PollAll_Invoke
    \/ PollAll_End
    \/ \E n \in Names, e \in BOOLEAN : SetTaskEnabled_Call(n, e)
    \/ SetTaskEnabled_Write
    \/ SetTaskEnabled_Return

SpecThreads == InitThreads /\ [][NextThreads]_vars

\* The upscaling pass on its own, in a Windows build and in another: the pass is created
\* with at least one image, then frames are rendered.
InitDlss ==
    /\ InitTimer
    /\ phy = PhyDriver
    /\ connected = FALSE
    /\ ticks = 0
    /\ polls_since_init = -1
    /\ phy_call = [op |-> "none", ptr |-> NullPtr, result |-> FALSE]
    /\ phy_task = 0
    /\ passes_since_init = -1
    /\ simd = NoSimdCall
    /\ threads = NoThreads
    /\ dlss \in {[DlssPass EXCEPT !.windows = b] : b \in BOOLEAN}

NextDlss ==
    \/ \E n \in 1..MaxImages, is_nvidia_gpu \in BOOLEAN, sl \in SlInitResults :
          /\ (dlss.windows /\ is_nvidia_gpu) \/ sl = "ok"
          /\ Create(n, is_nvidia_gpu, sl)
    \/ \E enable \in BOOLEAN, input_size \in InputSizes, output_size \in OutputSizes,
          color_image \in BOOLEAN, sl \in SlRenderResults :
          Render(enable, input_size, output_size, color_image, sl)

SpecDlss == InitDlss /\ [][NextDlss]_vars

----------------------------------------------------------------------------
(* Properties of the poll registry, checked under SpecTimer *)

TaskIds == 1..Len(poll_tasks)

InSeq(x, s) == \E j \in 1..Len(s) : s[j] = x

Count(x, s) == Cardinality({j \in 1..Len(s) : s[j] = x})

StrictlyIncreasing(s) == \A j \in 1..(Len(s) - 1) : s[j] < s[j + 1]

UniqueName(i) == \A j \in TaskIds : j # i => poll_tasks[j].name # poll_tasks[i].name

\* C1: a PollAll pass invokes exactly the tasks that are enabled and have a callback bound,
\* each once, in registration order; disabled tasks and tasks with an empty callback are
\* not invoked.
C1_PollAllInvokesEnabledInOrder ==
    last_pass.done =>
        /\ StrictlyIncreasing(last_pass.invoked)
        /\ \A i \in TaskIds :
              Count(i, last_pass.invoked) =
                  IF poll_tasks[i].enabled /\ poll_tasks[i].callback THEN 1 ELSE 0
        /\ \A j \in 1..Len(last_pass.invoked) : last_pass.invoked[j] \in TaskIds

\* A pass over three tasks, one of them disabled though its callback is bound, that invoked
\* the other two.
C1_Witness ==
    /\ last_pass.done
    /\ Len(poll_tasks) = 3
    /\ ~poll_tasks[2].enabled /\ poll_tasks[2].callback
    /\ last_pass.invoked = <<1, 3>>

\* C2: when the callback of one task throws during a pass, every other task that is enabled
\* and has a callback, registered before or after the faulting one, is invoked exactly once
\* in that same pass.
C2_FaultDoesNotStopOthers ==
    last_pass.done =>
        \A f \in TaskIds : InSeq(f, last_pass.faulted) =>
            \A i \in TaskIds \ {f} :
                (poll_tasks[i].enabled /\ poll_tasks[i].callback) =>
                    Count(i, last_pass.invoked) = 1

\* Tasks A, B, C in that order, all enabled: B alone threw, A and C were invoked.
C2_Witness ==
    /\ last_pass.done
    /\ Len(poll_tasks) = 3
    /\ \A i \in TaskIds : poll_tasks[i].enabled /\ poll_tasks[i].callback
    /\ last_pass.faulted = <<2>>
    /\ last_pass.invoked = <<1, 2, 3>>

\* C3: PollAll never lets an exception of a callback reach its caller, and a fault changes
\* nothing for the next pass: when PollAll is called again after a pass, the task list is as
\* before, each task that threw is still registered and enabled and is invoked again, as is
\* every other enabled task.
C3_FaultNeverPropagates ==
    /\ [](last_pass.done => ~last_pass.propagated)
    /\ [][(last_pass.done /\ last_call'.op = "PollAll") =>
            /\ poll_tasks' = poll_tasks
            /\ \A f \in TaskIds : InSeq(f, last_pass.faulted) =>
                  poll_tasks'[f].enabled /\ InSeq(f, last_pass'.invoked)
            /\ \A i \in TaskIds : (poll_tasks[i].enabled /\ poll_tasks[i].callback) =>
                  InSeq(i, last_pass'.invoked)]_vars

\* A pass in which one callback threw a std::exception and another something else, and
\* that returned to its caller.
C3_Witness ==
    /\ last_pass.done
    /\ ~last_pass.propagated
    /\ Len(last_pass.faulted) = 2
    /\ \E j, k \in 1..Len(last_pass.logged) :
          /\ last_pass.logged[j][2] = "Exception"
          /\ last_pass.logged[k][2] = "Unknown exception"

\* C4: a uniquely named task whose latest SetTaskEnabled call was (name, false) is not invoked
\* by any pass; once the latest call is (name, true) it is invoked again, at its position in
\* registration order.
C4_DisableThenEnable ==
    last_pass.done =>
        \A i \in TaskIds : UniqueName(i) =>
            /\ last_set[poll_tasks[i].name] = "off" => ~InSeq(i, last_pass.invoked)
            /\ (last_set[poll_tasks[i].name] = "on" /\ poll_tasks[i].callback) =>
                  /\ Count(i, last_pass.invoked) = 1
                  /\ \A j, k \in 1..Len(last_pass.invoked) :
                        (last_pass.invoked[j] = i /\ k < j) => last_pass.invoked[k] < i
                  /\ \A j, k \in 1..Len(last_pass.invoked) :
                        (last_pass.invoked[j] = i /\ k > j) => last_pass.invoked[k] > i

\* Three tasks; the uniquely named middle one was disabled and enabled again, and the pass
\* invoked it between the other two.
C4_Witness ==
    /\ last_pass.done
    /\ Len(poll_tasks) = 3
    /\ UniqueName(2)
    /\ last_set[poll_tasks[2].name] = "on"
    /\ last_pass.invoked = <<1, 2, 3>>

\* A pass that skipped a uniquely named task after SetTaskEnabled(name, false).
C4_WitnessDisabled ==
    /\ last_pass.done
    /\ \E i \in TaskIds : /\ UniqueName(i)
                           /\ poll_tasks[i].callback
                           /\ last_set[poll_tasks[i].name] = "off"
                           /\ ~InSeq(i, last_pass.invoked)

\* C5: SetTaskEnabled with a name that no registered task has leaves the number, order,
\* names, callbacks and enabled flags of the registered tasks as they were.
C5_UnknownNameIsNoOp ==
    [][\A n \in Names, e \in BOOLEAN :
          (SetTaskEnabled(n, e) /\ ~Registered(n)) => poll_tasks' = poll_tasks]_vars

\* SetTaskEnabled was just called with a name that is not registered, on a registry that
\* holds an enabled and a disabled task.
C5_Witness ==
    /\ last_call.op = "SetTaskEnabled"
    /\ ~Registered(last_call.name)
    /\ \E i, j \in TaskIds : poll_tasks[i].enabled /\ ~poll_tasks[j].enabled

\* C11: RegisterPollTask(name, callback) adds exactly one task, at the end of the list,
\* enabled, with that name and callback; the tasks registered before keep their names,
\* callbacks, enabled flags and order.
C11_RegisterAppendsOne ==
    [][last_call'.op = "RegisterPollTask" =>
        /\ Len(poll_tasks') = Len(poll_tasks) + 1
        /\ \A i \in TaskIds : poll_tasks'[i] = poll_tasks[i]
        /\ poll_tasks'[Len(poll_tasks')] =
              [name |-> last_call'.name, callback |-> last_call'.flag, enabled |-> TRUE]]_vars

\* A task was just registered behind two others, one of them disabled.
C11_Witness ==
    /\ last_call.op = "RegisterPollTask"
    /\ Len(poll_tasks) = 3
    /\ ~poll_tasks[1].enabled
    /\ poll_tasks[2].name # poll_tasks[1].name
    /\ poll_tasks[3].enabled

FirstNamed(n) == CHOOSE i \in TaskIds :
                    /\ poll_tasks[i].name = n
                    /\ \A j \in 1..(i - 1) : poll_tasks[j].name # n

\* C12: SetTaskEnabled(name, enabled) sets the enabled flag of the first task of that name to
\* the argument, whatever it was, and changes nothing else: every other task, later tasks
\* of the same name included, keeps its flag, and no name, callback or position changes.
C12_SetsFirstMatchOnly ==
    [][(last_call'.op = "SetTaskEnabled" /\ Registered(last_call'.name)) =>
        LET first == FirstNamed(last_call'.name)
        IN  /\ Len(poll_tasks') = Len(poll_tasks)
            /\ poll_tasks'[first] = [poll_tasks[first] EXCEPT !.enabled = last_call'.flag]
            /\ \A i \in TaskIds \ {first} : poll_tasks'[i] = poll_tasks[i]]_vars

\* SetTaskEnabled(name, false) was just called where two tasks have that name: the first is
\* disabled, the second is still enabled.
C12_Witness ==
    /\ last_call.op = "SetTaskEnabled"
    /\ ~last_call.flag
    /\ Len(poll_tasks) = 3
    /\ poll_tasks[1].name = last_call.name /\ ~poll_tasks[1].enabled
    /\ poll_tasks[3].name = last_call.name /\ poll_tasks[3].enabled

AllNamesUnique == \A i, j \in TaskIds : i # j => poll_tasks[i].name # poll_tasks[j].name

\* C19 as stated: in every reachable state no two registered tasks have the same name.
C19_NamesAlwaysUnique == AllNamesUnique

\* C19 as amended: RegisterPollTask does not enforce unique names.  Registering a name that
\* no task has keeps the names unique; registering a name that a task already has is
\* accepted and leaves two tasks of that name.
C19_UniqueOnlyIfCallersNeverReuse ==
    [][last_call'.op = "RegisterPollTask" =>
        (AllNamesUnique' <=> (AllNamesUnique /\ ~Registered(last_call'.name)))]_vars

\* A name was just registered a second time: two tasks carry it.
C19_Witness ==
    /\ last_call.op = "RegisterPollTask"
    /\ Len(poll_tasks) = 2
    /\ poll_tasks[1].name = poll_tasks[2].name

\* The names of the registered tasks, in registration order.
TaskNames(tasks) == [i \in 1..Len(tasks) |-> tasks[i].name]

\* C23: no registry operation removes, reorders or renames tasks: every step leaves the
\* list of names as it was or appends one name at its end, and a PollAll (whose callbacks
\* do not call the registry) leaves the task list and every enabled flag unchanged.
C23_NamesOnlyGrowAtEnd ==
    [][/\ \/ TaskNames(poll_tasks') = TaskNames(poll_tasks)
          \/ \E n \in Names : TaskNames(poll_tasks') = Append(TaskNames(poll_tasks), n)
       /\ last_call'.op = "PollAll" => poll_tasks' = poll_tasks]_vars

\* A pass has just run over three tasks under the names A, B, A, the second one disabled:
\* the list is as the three registrations and the SetTaskEnabled call left it.
C23_Witness ==
    /\ last_call.op = "PollAll"
    /\ TaskNames(poll_tasks) = <<"A", "B", "A">>
    /\ ~poll_tasks[2].enabled
    /\ poll_tasks[1].enabled /\ poll_tasks[3].enabled
    /\ last_pass.invoked = <<1, 3>>
    /\ last_pass.faulted = <<1>>

\* Task i was registered under a name that an earlier task already has.
ShadowedName(i) == \E j \in 1..(i - 1) : poll_tasks[j].name = poll_tasks[i].name

\* C24: a task registered under a name that an earlier task already has is enabled after
\* any sequence of SetTaskEnabled calls and, if its callback is bound, is invoked in every
\* PollAll pass.
C24_ShadowedTaskStaysEnabled ==
    \A i \in TaskIds : ShadowedName(i) =>
        /\ poll_tasks[i].enabled
        /\ (last_pass.done /\ poll_tasks[i].callback) => InSeq(i, last_pass.invoked)

\* Two tasks named A, SetTaskEnabled("A", false) called last for that name: the pass
\* skipped the first and invoked the second, which is still enabled.
C24_Witness ==
    /\ last_pass.done
    /\ TaskNames(poll_tasks) = <<"A", "A">>
    /\ last_set["A"] = "off"
    /\ ~poll_tasks[1].enabled /\ poll_tasks[1].callback
    /\ poll_tasks[2].enabled /\ poll_tasks[2].callback
    /\ last_pass.invoked = <<2>>

\* C26 as stated (under SpecThreads): with nothing serializing the two threads, no
\* invocation of a uniquely named task begins after SetTaskEnabled(name, false) has returned
\* and before the task is re-enabled.
C26_DisableHoldsWithoutLock ==
    ~threads.serialized => ~threads.late

\* C26 as amended (under SpecThreads): when the callers serialize PollAll and
\* SetTaskEnabled, no invocation of a uniquely named task begins after
\* SetTaskEnabled(name, false) has returned and before the task is re-enabled.
C26_DisableHoldsWhenSerialized ==
    threads.serialized => ~threads.late

\* Serialized callers: SetTaskEnabled("A", false) has returned, and the pass now running
\* has gone past the disabled task A without invoking it and has invoked task B.
C26_Witness ==
    /\ threads.serialized
    /\ threads.off["A"]
    /\ Len(poll_tasks) = 2
    /\ poll_tasks[1].name = "A" /\ ~poll_tasks[1].enabled
    /\ poll_tasks[2].name = "B"
    /\ threads.poll = [phase |-> "test", i |-> 3, invoked |-> <<2>>]

\* The flag of task i as the pass finds it: the flag of the latest SetTaskEnabled call, made
\* by a callback invoked before the pass reached i, whose first match is i; the flag task i
\* had when the pass began if there is no such call.
FlagWhenReached(i) ==
    LET prior == {k \in 1..Len(last_pass.calls) :
                    /\ last_pass.calls[k].caller < i
                    /\ Registered(last_pass.calls[k].name)
                    /\ FirstNamed(last_pass.calls[k].name) = i}
    IN  IF prior = {} THEN last_pass.began[i]
        ELSE last_pass.calls[CHOOSE k \in prior : \A m \in prior : m <= k].flag

\* C18 as stated (under SpecReentrant): a task that was enabled when the pass began (and has
\* a callback) is invoked in that pass, also when a callback of the same pass disabled it.
C18_DisableWaitsForNextPass ==
    (last_pass.done /\ last_call.op = "PollAll") =>
        \A i \in TaskIds : (last_pass.began[i] /\ poll_tasks[i].callback) =>
            InSeq(i, last_pass.invoked)

\* C18 as amended (under SpecReentrant): a SetTaskEnabled call made by a callback during a
\* pass takes effect at once.  The pass invokes exactly the tasks with a callback whose flag
\* is set when the loop reaches them: a task disabled by the callback of an earlier task is
\* skipped in the same pass though it was enabled when the pass began; a call that disables
\* the caller itself or an earlier task changes nothing in the running pass (calls made
\* after the loop reached a task do not count for it), and the task is left disabled for the
\* next pass.
C18_DisableTakesEffectAtOnce ==
    (last_pass.done /\ last_call.op = "PollAll") =>
        /\ StrictlyIncreasing(last_pass.invoked)
        /\ \A i \in TaskIds :
              InSeq(i, last_pass.invoked) <=> (poll_tasks[i].callback /\ FlagWhenReached(i))
        /\ \A k \in 1..Len(last_pass.calls) :
              LET c == last_pass.calls[k]
              IN  (/\ ~c.flag
                   /\ Registered(c.name)
                   /\ \A m \in (k + 1)..Len(last_pass.calls) : last_pass.calls[m].name # c.name)
                  => /\ ~poll_tasks[FirstNamed(c.name)].enabled
                     /\ (FirstNamed(c.name) > c.caller
                            => ~InSeq(FirstNamed(c.name), last_pass.invoked))
                     /\ (FirstNamed(c.name) = c.caller
                            => InSeq(FirstNamed(c.name), last_pass.invoked))

\* Three tasks, all enabled as the pass began: the callback of the first called
\* SetTaskEnabled(name of the third, false), and the pass skipped the third.
C18_Witness ==
    /\ last_pass.done
    /\ Len(poll_tasks) = 3
    /\ last_pass.began = <<TRUE, TRUE, TRUE>>
    /\ poll_tasks[3].callback
    /\ UniqueName(3)
    /\ last_pass.calls = <<[caller |-> 1, name |-> poll_tasks[3].name, flag |-> FALSE]>>
    /\ last_pass.invoked = <<1, 2>>

----------------------------------------------------------------------------
(* Properties of the PHY device, checked under SpecPhyAny: the device starts with any *)
(* field values.                                                                       *)

\* C6: after Phy_Init and k polls with no Phy_Init in between, whatever the device held
\* before, the device is INITIALIZING when k < 3 and OPERATIONAL when k >= 3; a new Phy_Init
\* restarts the count.
C6_OperationalOnThirdPoll ==
    polls_since_init >= 0 =>
        /\ polls_since_init < 3 => phy.state = 1
        /\ polls_since_init >= 3 => phy.state = 2

\* The third poll after Phy_Init has just made the device operational.
C6_Witness ==
    /\ polls_since_init = 3
    /\ phy_call.op = "Phy_Poll"
    /\ phy.state = OPERATIONAL

\* C7: Phy_IsOperational answers true exactly for a non-null device whose state is
\* OPERATIONAL (false for null, UNINITIALIZED, INITIALIZING and ERROR), and the call leaves
\* every field of the device as it was.
C7_IsOperationalIffOperational ==
    /\ [](phy_call.op = "Phy_IsOperational" =>
            /\ phy_call.ptr = NullPtr => phy_call.result = FALSE
            /\ (phy_call.ptr = DevPtr /\ phy.state \in {0, 1, 3}) => phy_call.result = FALSE
            /\ (phy_call.ptr = DevPtr /\ phy.state = 2) => phy_call.result = TRUE)
    /\ [][(\E p \in Ptrs : IsOperationalCall(p)) => phy' = phy]_vars

\* The query has just answered false for a device in ERROR.
C7_Witness ==
    /\ phy_call = [op |-> "Phy_IsOperational", ptr |-> DevPtr, result |-> FALSE]
    /\ phy.state = ERROR

\* The query has just answered true.
C7_WitnessTrue ==
    /\ phy_call = [op |-> "Phy_IsOperational", ptr |-> DevPtr, result |-> TRUE]
    /\ phy.state = OPERATIONAL

\* C8: a poll of an OPERATIONAL device sets link_up to the connectivity signal as it is at
\* that poll and leaves the state OPERATIONAL; only Phy_Init takes the device out of
\* OPERATIONAL.
C8_LinkTracksSignal ==
    /\ [][(phy.state = OPERATIONAL /\ Phy_Poll(DevPtr)) =>
            (phy'.link_up = connected /\ phy'.state = OPERATIONAL)]_vars
    /\ [][(phy.state = OPERATIONAL /\ phy'.state # OPERATIONAL) => Phy_Init(DevPtr)]_vars

\* An operational device that was polled at least once after it became operational, with
\* the signal off: the link is down and the state is still OPERATIONAL.
C8_Witness ==
    /\ phy.state = OPERATIONAL
    /\ phy_call = [op |-> "Phy_Poll", ptr |-> DevPtr, result |-> FALSE]
    /\ polls_since_init >= 4
    /\ ~connected /\ ~phy.link_up

\* C9: a poll of a device in ERROR leaves the state ERROR and init_counter and link_up as
\* they were; only Phy_Init takes the device out of ERROR, to INITIALIZING.
C9_ErrorIsSticky ==
    /\ [][(phy.state = ERROR /\ Phy_Poll(DevPtr)) =>
            /\ phy'.state = ERROR
            /\ phy'.init_counter = phy.init_counter
            /\ phy'.link_up = phy.link_up]_vars
    /\ [][(phy.state = ERROR /\ phy'.state # ERROR) =>
            (Phy_Init(DevPtr) /\ phy'.state = INITIALIZING)]_vars

\* A device in ERROR, with a counter and a link flag to lose, has just been polled at a
\* later time than its previous poll.
C9_Witness ==
    /\ phy.state = ERROR
    /\ phy_call = [op |-> "Phy_Poll", ptr |-> DevPtr, result |-> FALSE]
    /\ phy.init_counter = 2 /\ phy.link_up
    /\ ticks = 3 /\ phy.last_poll_time = 3

\* C10: Phy_Init on a non-null device, from every state, yields state INITIALIZING,
\* init_counter 0, link_up false and last_poll_time equal to the current value of the tick
\* source.
C10_InitResetsDevice ==
    [][Phy_Init(DevPtr) =>
        /\ phy'.state = INITIALIZING
        /\ phy'.init_counter = 0
        /\ phy'.link_up = FALSE
        /\ phy'.last_poll_time = ticks]_vars

\* C13 (under SpecPhy): before the first Phy_Init, however often the device is polled and
\* whatever the connectivity signal is, the state is UNINITIALIZED, init_counter is 0,
\* link_up is false and Phy_IsOperational answers false.
C13_PollBeforeInitIsNoOp ==
    polls_since_init = -1 =>
        /\ phy.state = 0
        /\ phy.init_counter = 0
        /\ phy.link_up = FALSE
        /\ ~Phy_IsOperational(DevPtr)

\* A device that was never initialized has just been polled, with the signal on, at tick 3.
C13_Witness ==
    /\ polls_since_init = -1
    /\ phy_call = [op |-> "Phy_Poll", ptr |-> DevPtr, result |-> FALSE]
    /\ connected
    /\ ticks = 3 /\ phy.last_poll_time = 3

\* C14: every Phy_Poll on a non-null device, in each of the four states, sets last_poll_time
\* to the current value of the tick source.
C14_PollStampsTickValue ==
    [][Phy_Poll(DevPtr) => phy'.last_poll_time = ticks]_vars

\* C15: Phy_Init and Phy_Poll with a null device reference return without changing the
\* state, counter, link flag or timestamp of the device.
C15_NullIsNoOp ==
    [][(phy_call'.op \in {"Phy_Init", "Phy_Poll"} /\ phy_call'.ptr = NullPtr) =>
        phy' = phy]_vars

\* Phy_Poll(null) has just returned while the device is in its bring-up, at a time later
\* than the device's last poll.
C15_Witness ==
    /\ phy_call = [op |-> "Phy_Poll", ptr |-> NullPtr, result |-> FALSE]
    /\ phy.state = INITIALIZING
    /\ phy.init_counter = 1
    /\ ticks = 4 /\ phy.last_poll_time = 2

\* Phy_Init(null) has just returned while the device is operational with its link up.
C15_WitnessInit ==
    /\ phy_call = [op |-> "Phy_Init", ptr |-> NullPtr, result |-> FALSE]
    /\ phy.state = OPERATIONAL
    /\ phy.link_up

\* C21 (under SpecPhyAny): a Phy_Poll call changes the state at most once, and the only
\* change it makes is INITIALIZING -> OPERATIONAL: a device in UNINITIALIZED, OPERATIONAL or
\* ERROR keeps its state, and an INITIALIZING device stays or becomes OPERATIONAL.
C21_PollOnlyAdvancesBringUp ==
    [][phy_call'.op = "Phy_Poll" =>
        \/ phy'.state = phy.state
        \/ (phy.state = INITIALIZING /\ phy'.state = OPERATIONAL)]_vars

\* The poll that has just ended the bring-up: the counter reached the threshold in this
\* call, and the link flag took the signal's value.
C21_Witness ==
    /\ phy_call = [op |-> "Phy_Poll", ptr |-> DevPtr, result |-> FALSE]
    /\ polls_since_init = 3
    /\ phy.state = OPERATIONAL
    /\ phy.init_counter = 3
    /\ phy.link_up /\ connected

\* C22 (under SpecPhy): starting from a freshly constructed device, no sequence of Phy_Init
\* and Phy_Poll calls, under any values of the connectivity signal and the tick source,
\* puts the device in ERROR.
C22_ErrorNeverReached ==
    phy.state # ERROR

\* An operational device has just been polled with the connectivity off, after the tick
\* source passed the u32 range: the link is down and the device is still operational.
C22_Witness ==
    /\ phy_call = [op |-> "Phy_Poll", ptr |-> DevPtr, result |-> FALSE]
    /\ polls_since_init = 5
    /\ phy.state = OPERATIONAL
    /\ ~connected /\ ~phy.link_up
    /\ ticks >= U32Range

\* C25 (under SpecPhy): in every state reachable from a freshly constructed device
\* init_counter is at most 3; UNINITIALIZED implies init_counter = 0; INITIALIZING implies
\* init_counter is 0, 1 or 2; OPERATIONAL implies init_counter = 3; link_up implies
\* OPERATIONAL.
C25_CounterAndLinkFollowState ==
    /\ phy.init_counter <= 3
    /\ phy.state = UNINITIALIZED => phy.init_counter = 0
    /\ phy.state = INITIALIZING => phy.init_counter \in {0, 1, 2}
    /\ phy.state = OPERATIONAL => phy.init_counter = 3
    /\ phy.link_up => phy.state = OPERATIONAL

\* An operational device with its link up that has been polled twice since it became
\* operational: the counter stopped at 3.
C25_Witness ==
    /\ phy.state = OPERATIONAL
    /\ phy.init_counter = 3
    /\ phy.link_up
    /\ polls_since_init = 5
    /\ phy_call.op = "Phy_Poll"

----------------------------------------------------------------------------
(* The device polled through the registry, checked under SpecSystem *)

\* C20: once the device has been initialized, three PollAll passes begun with the device's
\* task enabled (and no Phy_Init since) make the device OPERATIONAL, and it stays so on
\* every later pass, whatever other tasks are registered before or after it and whether or
\* not their callbacks throw.
C20_OperationalAfterThreePasses ==
    passes_since_init >= 3 => phy.state = 2

\* The third pass since Phy_Init has just run: the device's task sits between two tasks
\* whose callbacks both threw in that pass, and the device is operational.
C20_Witness ==
    /\ passes_since_init = 3
    /\ phy.state = OPERATIONAL
    /\ phy_task = 2
    /\ last_pass.done
    /\ last_pass.invoked = <<1, 2, 3>>
    /\ last_pass.faulted = <<1, 3>>

-----------------------------------------------------------------------------
(* Properties of the buffer routines, checked under SpecSimd *)

\* C16: SimdMemcpy(dst, src, size) copies exactly size bytes for every size and every
\* destination alignment on each of the three paths: afterwards dst[i] = src[i] for all
\* 0 <= i < size, no byte outside dst[0..size) is written and no byte outside src[0..size)
\* is read; the result is that of memcpy.
C16_SimdMemcpyEqualsMemcpy ==
    (simd.fn = "SimdMemcpy" /\ simd.done) =>
        /\ \A i \in 0..(simd.size - 1) : Written(simd.ops, i) = i
        /\ WriteSet(simd.ops) \subseteq 0..(simd.size - 1)
        /\ ReadSet(simd.ops) \subseteq 0..(simd.size - 1)
        /\ \A i \in 0..(simd.size - 1) : Written(simd.ops, i) = Written(Memcpy(simd.size), i)
        /\ WriteSet(simd.ops) = WriteSet(Memcpy(simd.size))

\* An AVX2 copy to a destination one byte past a 32-byte boundary that runs the prologue
\* (31 bytes), one 128-byte iteration, one 32-byte block and a one-byte tail.
C16_Witness ==
    /\ simd.fn = "SimdMemcpy"
    /\ simd.done
    /\ simd.path = "AVX2"
    /\ simd.dst = 1
    /\ simd.size = 192
    /\ Len(simd.ops) = 7
    /\ simd.ops[1] = Transfer(0, 0, 31)
    /\ simd.ops[7] = Transfer(191, 191, 1)

\* C17: SimdMemcmp(ptr1, ptr2, size) has the semantics of memcmp for every size on every
\* path: it returns 0 if and only if the regions agree on all size bytes, and otherwise a
\* value whose sign is that of the difference of the first differing bytes compared as
\* unsigned bytes, also when the first difference lies in the tail after the last full chunk.
C17_SimdMemcmpIsMemcmp ==
    (simd.fn = "SimdMemcmp" /\ simd.done) =>
        /\ simd.result = 0 <=> \A i \in 0..(simd.size - 1) : Byte1(simd, i) = Byte2(simd, i)
        /\ \A m \in 0..(simd.size - 1) :
              (/\ Byte1(simd, m) # Byte2(simd, m)
               /\ \A j \in 0..(m - 1) : Byte1(simd, j) = Byte2(simd, j))
                  => simd.result = Sign(Byte1(simd, m) - Byte2(simd, m))

\* An AVX2 comparison of 140 bytes whose first difference is in the tail, with the smaller
\* unsigned byte in the first region and every later byte differing the other way round.
C17_Witness ==
    /\ simd.fn = "SimdMemcmp"
    /\ simd.done
    /\ simd.path = "AVX2"
    /\ simd.size = 140
    /\ simd.first = 130
    /\ simd.sign = -1
    /\ simd.rest
    /\ simd.result = -1

-----------------------------------------------------------------------------
(* Properties of the upscaling pass, checked under SpecDlss *)

\* C27: Render is a pure passthrough whenever settings.enable is false, or the pass is not
\* available, or the input size is at least the output size in both width and height: it
\* returns inputs.color_input and changes neither cur_image, frame_index, cur_size nor any
\* image's dirty flag; in a build for another platform than Windows Render returns
\* inputs.color_input for every input.
C27_RenderPassesThrough ==
    [][dlss'.call.op = "Render" =>
        /\ (\/ ~dlss'.call.enable
            \/ ~dlss.is_available
            \/ (/\ dlss'.call.input_size[1] >= dlss'.call.output_size[1]
                /\ dlss'.call.input_size[2] >= dlss'.call.output_size[2]))
              => /\ dlss'.call.result = "color_input"
                 /\ dlss'.cur_image = dlss.cur_image
                 /\ dlss'.frame_index = dlss.frame_index
                 /\ dlss'.cur_size = dlss.cur_size
                 /\ \A i \in 1..Len(dlss.available_imgs) :
                       dlss'.available_imgs[i].dirty = dlss.available_imgs[i].dirty
        /\ ~dlss.windows => dlss'.call.result = "color_input"]_vars

\* An available pass that has rendered frames at 2x2 has just been asked, enabled, to
\* render a 2x2 input to a 1x2 output: it passed the input through and kept its size, its
\* frame count and its images.
C27_Witness ==
    /\ dlss.call = [op |-> "Render", enable |-> TRUE, input_size |-> <<2, 2>>,
                    output_size |-> <<1, 2>>, result |-> "color_input", tagged |-> 0,
                    prepared |-> 0]
    /\ dlss.is_available
    /\ dlss.cur_size = <<2, 2>>
    /\ dlss.frame_index = 2
    /\ dlss.cur_image = 2

\* C28: for a pass created with num_images >= 1, after any sequence of Render calls
\* cur_image is below num_images, and the image that the Streamline path of Render tags as
\* its output (and returns) is the image PrepareOutputImage prepared in that call: it is
\* not dirty and was created at the output size of the call.
C28_TaggedImageIsPrepared ==
    dlss.created =>
        /\ dlss.cur_image < dlss.num_images
        /\ dlss.call.tagged # 0 =>
              /\ dlss.call.tagged = dlss.call.prepared
              /\ ~dlss.available_imgs[dlss.call.tagged].dirty
              /\ dlss.available_imgs[dlss.call.tagged].created
              /\ dlss.available_imgs[dlss.call.tagged].extent = dlss.call.output_size

=============================================================================
